---- MODULE Spec2Model ----
(***************************************************************************)
(* Model of the command-line driver cs.main() (src/cs/__init__.py).        *)
(*                                                                         *)
(* Strings the code inspects (the command name, the OPTION=VALUE words)    *)
(* are sequences of one-character strings.  Payloads are mappings from     *)
(* key names to values (TLA+ records).  The API client (cs.client) is an   *)
(* external collaborator: each of its calls is a blocking step whose       *)
(* outcome (a payload, a CloudStackException, another exception) is chosen *)
(* by the environment.  A KeyboardInterrupt is delivered while the process *)
(* is blocked: in the initial call, in a job-status call, or in sleep.     *)
(* Job-status answers are job results: mappings holding jobstatus and      *)
(* jobresultcode.                                                          *)
(***************************************************************************)
EXTENDS Integers, Sequences, FiniteSets, TLC

\* Bounds of the model.
MaxCount == 4        \* the observer counters saturate at this value
MaxArgs == 2         \* at most this many OPTION=VALUE words on the command line

\* ------------------------------------------------------------------------
\* Strings

Range(s) == { s[i] : i \in 1..Len(s) }

\* Python's  sub in s  for strings
Contains(sub, s) ==
    \E i \in 1..(Len(s) - Len(sub) + 1) : SubSeq(s, i, i + Len(sub) - 1) = sub

Async == <<"A", "s", "y", "n", "c">>
jobid == "jobid"

StripChars == {" ", "\"", "'"}

RECURSIVE LStrip(_)
LStrip(s) == IF s # <<>> /\ Head(s) \in StripChars THEN LStrip(Tail(s)) ELSE s

RECURSIVE RStrip(_)
RStrip(s) ==
    IF s # <<>> /\ s[Len(s)] \in StripChars THEN RStrip(SubSeq(s, 1, Len(s) - 1)) ELSE s

\* value.strip(" \"'")
strip(s) == RStrip(LStrip(s))

FirstEq(x) == CHOOSE i \in 1..Len(x) : x[i] = "=" /\ \A j \in 1..(i - 1) : x[j] # "="

\* _parser.parse_option: the argparse type callback of OPTION=VALUE
parse_option(x) ==
    IF "=" \notin Range(x)
      THEN [raised |-> "ValueError"]
      ELSE [raised |-> "", key |-> SubSeq(x, 1, FirstEq(x) - 1),
            value |-> SubSeq(x, FirstEq(x) + 1, Len(x))]

\* kwargs = defaultdict(set); kwargs[key].add(value.strip(...)) for each argument
BuildKwargs(arguments) ==
    [k \in { arguments[i].key : i \in 1..Len(arguments) } |->
        { strip(arguments[i].value) : i \in { j \in 1..Len(arguments) : arguments[j].key = k } }]

\* ------------------------------------------------------------------------
\* Inputs

Commands ==
    { <<"l", "i", "s", "t">>,
      <<"d", "e", "p", "l", "o", "y">>,
      <<"q", "u", "e", "r", "y", "A", "s", "y", "n", "c">>,
      <<"l", "i", "s", "t", "a", "s", "y", "n", "c">> }

Words ==
    { <<"i", "d", "=", "1">>,
      <<"i", "d", "=", "'", "2", "'">>,
      <<"f", "o", "o">> }

RECURSIVE SeqsUpTo(_, _)
SeqsUpTo(S, n) ==
    IF n = 0 THEN { <<>> }
    ELSE SeqsUpTo(S, n - 1) \cup
         { Append(s, w) : s \in { t \in SeqsUpTo(S, n - 1) : Len(t) = n - 1 }, w \in S }

DefaultRegion == "cloudstack"

\* sys.argv as argparse sees it
Argvs ==
    [ command : Commands, arguments : SeqsUpTo(Words, MaxArgs),
      quiet : BOOLEAN, async : BOOLEAN, post : BOOLEAN, region : {DefaultRegion} ]

\* the sections of ~/.cloudstack.ini
IniFiles == { {}, {DefaultRegion} }

\* ------------------------------------------------------------------------
\* Payloads and HTTP bodies

NoPayload == [none |-> TRUE]
NoOptions == [none |-> TRUE]

\* payloads a successful initial call returns
SuccessPayloads == { [count |-> 1], [jobid |-> 7] }

JsonText(obj) == [kind |-> "json", obj |-> obj]
RawText == [kind |-> "raw"]

\* the HTTP responses a CloudStackException carries in e.args[1]
ErrorResponses ==
    { [status_code |-> 431, text |-> JsonText([errorcode |-> 431])],
      [status_code |-> 431, text |-> JsonText([errorcode |-> 431, jobid |-> 7])],
      [status_code |-> 502, text |-> RawText] }

JobStatuses == {0, 1, 2}
JobResultCodes == {0, 530}

\* json.loads: the decoded object, or ValueError when the text is not JSON
json_loads(text) ==
    IF text.kind = "json" THEN [raised |-> "", obj |-> text.obj]
                          ELSE [raised |-> "ValueError"]

\* _format_json(data, theme) when stdout is not a terminal
_format_json(data, theme) == [dumps |-> data, indent |-> 2, sort_keys |-> TRUE]

\* lines written to stderr
StatusLine(code) == [line |-> "Cloudstack error: HTTP response", status_code |-> code]
BodyLine(text) == [line |-> "body", text |-> text]
PollingLine == [line |-> "Polling result... ^C to abort"]
NotReadyLine == [line |-> "Result not ready yet."]
UsageLine == [line |-> "usage"]
RegionLine(region) == [line |-> "Error: region not in config", region |-> region]
TracebackLine == [line |-> "Traceback"]
Newline == [line |-> "\n"]

Inc(n) == IF n < MaxCount THEN n + 1 ELSE MaxCount

\* ------------------------------------------------------------------------
\* State

VARIABLES
    argv,          \* the command line
    ini,           \* the sections of the configuration file
    pc,            \* position of main()
    options,       \* parser.parse_args()
    kwargs,        \* the parameter multimap
    cs,            \* the configuration the CloudStack client was built with
    theme,
    e,             \* e.args[1] of the CloudStackException caught at the initial call
    response,
    res,           \* the last job-status answer
    ok,
    stdout,
    stderr,
    exitStatus,    \* -1 while running
    nCalls,        \* initial API calls issued
    nQueries,      \* job-status queries issued
    nWaits,        \* time.sleep(3) calls started
    nPending,      \* answers received with jobstatus == 0
    nTerminal,     \* answers received with jobstatus != 0
    callOutcome,   \* how the initial call ended
    interrupted,   \* where a KeyboardInterrupt arrived
    queryFailed,   \* a job-status query raised
    firstResponse  \* response as it stood when the async detection ran

vars == << argv, ini, pc, options, kwargs, cs, theme, e, response, res, ok, stdout,
           stderr, exitStatus, nCalls, nQueries, nWaits, nPending, nTerminal,
           callOutcome, interrupted, queryFailed, firstResponse >>

prog == << options, kwargs, cs, theme, e, response, res, ok >>
counters == << nCalls, nQueries, nWaits, nPending, nTerminal >>
ghosts == << callOutcome, interrupted, queryFailed, firstResponse >>
inputs == << argv, ini >>

Init ==
    /\ argv \in Argvs
    /\ ini \in IniFiles
    /\ pc = "parse"
    /\ options = NoOptions
    /\ kwargs = <<>>
    /\ cs = NoOptions
    /\ theme = "default"
    /\ e = NoPayload
    /\ response = NoPayload
    /\ res = NoPayload
    /\ ok = FALSE
    /\ stdout = <<>>
    /\ stderr = <<>>
    /\ exitStatus = -1
    /\ nCalls = 0
    /\ nQueries = 0
    /\ nWaits = 0
    /\ nPending = 0
    /\ nTerminal = 0
    /\ callOutcome = "none"
    /\ interrupted = "none"
    /\ queryFailed = FALSE
    /\ firstResponse = NoPayload

\* an uncaught exception: traceback on stderr, the interpreter exits with status
Fatal(status) ==
    /\ pc' = "exited"
    /\ stderr' = Append(stderr, TracebackLine)
    /\ exitStatus' = status
    /\ UNCHANGED stdout

\* ------------------------------------------------------------------------
\* Argument parsing and configuration

Parsed == [ i \in 1..Len(argv.arguments) |-> parse_option(argv.arguments[i]) ]

\* parse_args succeeds; the parameter multimap is built
ParseArgs ==
    /\ pc = "parse"
    /\ \A i \in 1..Len(argv.arguments) : Parsed[i].raised = ""
    /\ options' = [ argv EXCEPT !.arguments = Parsed ]
    /\ kwargs' = BuildKwargs(Parsed)
    /\ pc' = "config"
    /\ UNCHANGED << inputs, cs, theme, e, response, res, ok, stdout, stderr, exitStatus,
                    counters, ghosts >>

\* parse_option raises ValueError: argparse prints the usage and exits with 2
ParseArgsError ==
    /\ pc = "parse"
    /\ \E i \in 1..Len(argv.arguments) : Parsed[i].raised = "ValueError"
    /\ pc' = "exited"
    /\ stderr' = Append(stderr, UsageLine)
    /\ exitStatus' = 2
    /\ UNCHANGED << inputs, prog, stdout, counters, ghosts >>

\* read_config finds the region; the client is constructed; ok = True
ReadConfig ==
    /\ pc = "config"
    /\ options.region \in ini
    /\ theme' = "default"
    /\ cs' = [ method |-> IF options.post THEN "post" ELSE "get" ]
    /\ ok' = TRUE
    /\ pc' = "call"
    /\ UNCHANGED << inputs, options, kwargs, e, response, res, stdout, stderr, exitStatus,
                    counters, ghosts >>

\* variant: the missing section is swallowed and the client is built anyway
ReadConfigMissing_Continues ==
    /\ pc = "config"
    /\ options.region \notin ini
    /\ theme' = "default"
    /\ cs' = [ method |-> IF options.post THEN "post" ELSE "get" ]
    /\ ok' = TRUE
    /\ pc' = "call"
    /\ UNCHANGED << inputs, options, kwargs, e, response, res, stdout, stderr, exitStatus,
                    counters, ghosts >>

\* NoSectionError: raise SystemExit("Error: region ... not in config")
ReadConfigMissing ==
    /\ pc = "config"
    /\ options.region \notin ini
    /\ pc' = "exited"
    /\ stderr' = Append(stderr, RegionLine(options.region))
    /\ exitStatus' = 1
    /\ UNCHANGED << inputs, prog, stdout, counters, ghosts >>

\* ------------------------------------------------------------------------
\* The initial API call

\* getattr(cs, command)(**kwargs) sends the request
IssueCall ==
    /\ pc = "call"
    /\ nCalls' = Inc(nCalls)
    /\ pc' = "callinflight"
    /\ UNCHANGED << inputs, prog, stdout, stderr, exitStatus, nQueries, nWaits, nPending,
                    nTerminal, ghosts >>

\* the call returns a success payload
CallReturns ==
    /\ pc = "callinflight"
    /\ \E p \in SuccessPayloads :
         /\ response' = p
         /\ firstResponse' = p
    /\ callOutcome' = "returned"
    /\ pc' = "detect"
    /\ UNCHANGED << inputs, options, kwargs, cs, theme, e, res, ok, stdout, stderr,
                    exitStatus, counters, interrupted, queryFailed >>

\* variant: every CloudStackException ends the run, as in mainx()
HandleCloudStackException_Aborts ==
    /\ pc = "callinflight"
    /\ callOutcome' = "apierror"
    /\ \E r \in ErrorResponses :
         /\ e' = r
         /\ response' = r
         /\ stderr' = (IF ~options.quiet THEN Append(stderr, StatusLine(r.status_code))
                                        ELSE stderr) \o << BodyLine(r.text), Newline >>
    /\ exitStatus' = 1
    /\ pc' = "exited"
    /\ UNCHANGED << inputs, options, kwargs, cs, theme, res, ok, stdout, counters,
                    interrupted, queryFailed, firstResponse >>

\* except CloudStackException as e
HandleCloudStackException ==
    /\ pc = "callinflight"
    /\ callOutcome' = "apierror"
    /\ \E r \in ErrorResponses :
         LET status == IF ~options.quiet THEN Append(stderr, StatusLine(r.status_code))
                                        ELSE stderr
             decoded == json_loads(r.text)
         IN  /\ e' = r
             /\ IF decoded.raised = ""
                  THEN /\ response' = decoded.obj
                       /\ firstResponse' = decoded.obj
                       /\ stderr' = status
                       /\ pc' = "detect"
                       /\ UNCHANGED exitStatus
                  ELSE /\ response' = r
                       /\ stderr' = status \o << BodyLine(r.text), Newline >>
                       /\ exitStatus' = 1
                       /\ pc' = "exited"
                       /\ UNCHANGED firstResponse
    /\ UNCHANGED << inputs, options, kwargs, cs, theme, res, ok, stdout, counters,
                    interrupted, queryFailed >>

\* any other exception of the client is not caught by main()
CallRaisesOther ==
    /\ pc = "callinflight"
    /\ callOutcome' = "exception"
    /\ Fatal(1)
    /\ UNCHANGED << inputs, prog, counters, interrupted, queryFailed, firstResponse >>

\* KeyboardInterrupt during the initial call is outside the try of the loop
InterruptDuringCall ==
    /\ pc = "callinflight"
    /\ callOutcome' = "interrupt"
    /\ interrupted' = "call"
    /\ \E status \in {1, 130} : Fatal(status)
    /\ UNCHANGED << inputs, prog, counters, queryFailed, firstResponse >>

\* ------------------------------------------------------------------------
\* Async detection and the polling loop

\* variant: the --async flag is not consulted
ShouldPoll_IgnoresFlag(command, resp, opts) ==
    ~Contains(Async, command) /\ jobid \in DOMAIN resp

ShouldPoll(command, resp, opts) ==
    ~Contains(Async, command) /\ jobid \in DOMAIN resp /\ ~opts.async

AsyncDetect ==
    /\ pc = "detect"
    /\ IF ShouldPoll(options.command, response, options)
         THEN /\ stderr' = IF ~options.quiet THEN Append(stderr, PollingLine) ELSE stderr
              /\ pc' = "poll"
         ELSE /\ pc' = "format"
              /\ UNCHANGED stderr
    /\ UNCHANGED << inputs, prog, stdout, exitStatus, counters, ghosts >>

\* cs.queryAsyncJobResult(**response) sends the request
IssueQuery ==
    /\ pc = "poll"
    /\ nQueries' = Inc(nQueries)
    /\ pc' = "inflight"
    /\ UNCHANGED << inputs, prog, stdout, stderr, exitStatus, nCalls, nWaits, nPending,
                    nTerminal, ghosts >>

\* variant: only jobstatus == 1 ends the loop
IsTerminal_OnlySuccess(r) == r.jobstatus = 1

IsTerminal(r) == r.jobstatus # 0

\* variant: the run is classified by jobstatus
JobFailed_ByStatus(r) == r.jobstatus # 1

JobFailed(r) == r.jobresultcode # 0

\* the job-status call returns; the answer is tested, and sleep starts if pending
QueryReturns ==
    /\ pc = "inflight"
    /\ \E s \in JobStatuses, c \in JobResultCodes :
         LET answer == [jobid |-> response.jobid, jobstatus |-> s, jobresultcode |-> c]
         IN  /\ res' = answer
             /\ nPending' = IF s = 0 THEN Inc(nPending) ELSE nPending
             /\ nTerminal' = IF s # 0 THEN Inc(nTerminal) ELSE nTerminal
             /\ IF IsTerminal(answer)
                  THEN /\ response' = answer
                       /\ ok' = IF JobFailed(answer) THEN FALSE ELSE ok
                       /\ pc' = "format"
                       /\ UNCHANGED nWaits
                  ELSE /\ nWaits' = Inc(nWaits)
                       /\ pc' = "sleep"
                       /\ UNCHANGED << response, ok >>
    /\ UNCHANGED << inputs, options, kwargs, cs, theme, e, stdout, stderr, exitStatus,
                    nCalls, nQueries, ghosts >>

\* variant: a failed job-status call is tried again
QueryRaises_Retries ==
    /\ pc = "inflight"
    /\ queryFailed' = TRUE
    /\ pc' = "poll"
    /\ UNCHANGED << inputs, prog, stdout, stderr, exitStatus, counters, callOutcome,
                    interrupted, firstResponse >>

\* the job-status call raises CloudStackException or a transport error: only
\* KeyboardInterrupt is caught in the loop
QueryRaises ==
    /\ pc = "inflight"
    /\ queryFailed' = TRUE
    /\ Fatal(1)
    /\ UNCHANGED << inputs, prog, counters, callOutcome, interrupted, firstResponse >>

\* except KeyboardInterrupt: ... break
Caught(where) ==
    /\ interrupted' = where
    /\ stderr' = IF ~options.quiet THEN Append(stderr, NotReadyLine) ELSE stderr
    /\ pc' = "format"
    /\ UNCHANGED << inputs, prog, stdout, exitStatus, counters, callOutcome, queryFailed,
                    firstResponse >>

\* variant: the try covers time.sleep only, the interrupt propagates
InterruptInFlight_Propagates ==
    /\ pc = "inflight"
    /\ interrupted' = "inflight"
    /\ Fatal(1)
    /\ UNCHANGED << inputs, prog, counters, callOutcome, queryFailed, firstResponse >>

\* KeyboardInterrupt while cs.queryAsyncJobResult is blocked, inside the try
InterruptInFlight ==
    /\ pc = "inflight"
    /\ Caught("inflight")

\* variant: the handler keeps the last answer as the result
InterruptDuringWait_TakesAnswer ==
    /\ pc = "sleep"
    /\ interrupted' = "wait"
    /\ response' = res
    /\ stderr' = IF ~options.quiet THEN Append(stderr, NotReadyLine) ELSE stderr
    /\ pc' = "format"
    /\ UNCHANGED << inputs, options, kwargs, cs, theme, e, res, ok, stdout, exitStatus,
                    counters, callOutcome, queryFailed, firstResponse >>

\* KeyboardInterrupt during time.sleep(3)
InterruptDuringWait ==
    /\ pc = "sleep"
    /\ Caught("wait")

\* variant: the loop has a retry limit
SleepReturns_GivesUp ==
    /\ pc = "sleep"
    /\ pc' = IF nWaits >= 2 THEN "format" ELSE "poll"
    /\ UNCHANGED << inputs, prog, stdout, stderr, exitStatus, counters, ghosts >>

\* time.sleep(3) returns; while True goes round again
SleepReturns ==
    /\ pc = "sleep"
    /\ pc' = "poll"
    /\ UNCHANGED << inputs, prog, stdout, stderr, exitStatus, counters, ghosts >>

\* sys.stdout.write(_format_json(response)); sys.stdout.write('\n'); sys.exit(not ok)
Format ==
    /\ pc = "format"
    /\ stdout' = stdout \o << _format_json(response, theme), Newline >>
    /\ exitStatus' = IF ~ok THEN 1 ELSE 0
    /\ pc' = "exited"
    /\ UNCHANGED << inputs, prog, stderr, counters, ghosts >>

Next ==
    \/ ParseArgs
    \/ ParseArgsError
    \/ ReadConfig
    \/ ReadConfigMissing
    \/ IssueCall
    \/ CallReturns
    \/ HandleCloudStackException
    \/ CallRaisesOther
    \/ InterruptDuringCall
    \/ AsyncDetect
    \/ IssueQuery
    \/ QueryReturns
    \/ QueryRaises
    \/ InterruptInFlight
    \/ InterruptDuringWait
    \/ SleepReturns
    \/ Format

Spec == Init /\ [][Next]_vars

\* The process is single-threaded and never blocks on its own steps: a sleep
\* that is not interrupted returns, and the steps of main() between blocking
\* calls are taken.
FairSpec ==
    /\ Spec
    /\ WF_vars(AsyncDetect)
    /\ WF_vars(IssueQuery)
    /\ WF_vars(SleepReturns)
    /\ WF_vars(Format)

TypeOK ==
    /\ pc \in {"parse", "config", "call", "callinflight", "detect", "poll", "inflight",
               "sleep", "format", "exited"}
    /\ exitStatus \in {-1, 0, 1, 2, 130}
    /\ nQueries \in 0..MaxCount
    /\ (pc = "exited") = (exitStatus # -1)

\* ------------------------------------------------------------------------
\* Properties

Written(p) == stdout = << _format_json(p, theme), Newline >>

\* the three conditions of the async detection, on the inputs of the run
Triggered ==
    /\ ~Contains(Async, argv.command)
    /\ ~argv.async
    /\ "jobid" \in DOMAIN firstResponse

MalformedArgument == \E i \in 1..Len(argv.arguments) : "=" \notin Range(argv.arguments[i])

LoopLeft == nQueries > 0 /\ pc \in {"format", "exited"}

\* C1: whenever the initial API call fails with a CloudStackException, the
\* process exits with status 1, whatever the error body.
C1_ApiErrorExitsOne ==
    (pc = "exited" /\ callOutcome = "apierror") => exitStatus = 1

\* C2: a job-status query is issued only if the command name does not contain
\* 'Async', --async is off and the response contains jobid; otherwise no query
\* is issued and the response of the initial call is what is formatted.
C2_PollOnlyWhenTriggered ==
    /\ (nQueries > 0 \/ pc \in {"poll", "inflight", "sleep"}) => Triggered
    /\ (pc = "exited" /\ callOutcome = "apierror" /\ e.text.kind = "json" /\ ~Triggered)
         => nQueries = 0 /\ Written(firstResponse)
    /\ (pc = "exited" /\ callOutcome = "returned" /\ ~Triggered)
         => nQueries = 0 /\ Written(firstResponse)

C2_Witness ==
    /\ pc = "exited"
    /\ "jobid" \in DOMAIN firstResponse
    /\ argv.async
    /\ ~Contains(Async, argv.command)
    /\ nQueries = 0
    /\ Written(firstResponse)

\* C3: with k pending answers followed by one terminal answer and no interrupt,
\* the loop issues exactly k+1 queries and k waits, and the terminal answer is
\* the payload that is formatted.
C3_ExactPolling ==
    (pc = "exited" /\ nTerminal > 0 /\ interrupted = "none" /\ ~queryFailed
        /\ nQueries < MaxCount)
      => /\ nTerminal = 1
         /\ nQueries = nPending + 1
         /\ nWaits = nPending
         /\ res.jobstatus # 0
         /\ Written(res)

C3_Witness ==
    /\ pc = "exited"
    /\ nPending = 2
    /\ nTerminal = 1
    /\ nQueries = 3
    /\ nWaits = 2
    /\ interrupted = "none"
    /\ Written(res)

\* C4: at a terminal answer the run is classified by jobresultcode alone:
\* 0 gives exit status 0, anything else exit status 1, and the terminal payload
\* is written to stdout in both cases.
C4_ClassifiedByResultCode ==
    /\ (pc = "format" /\ nTerminal > 0 /\ interrupted = "none")
         => ok = (res.jobresultcode = 0)
    /\ (pc = "exited" /\ nTerminal > 0 /\ interrupted = "none" /\ ~queryFailed)
         => /\ exitStatus = (IF res.jobresultcode = 0 THEN 0 ELSE 1)
            /\ Written(res)

C4_Witness ==
    /\ pc = "exited"
    /\ nTerminal > 0
    /\ res.jobstatus = 1
    /\ res.jobresultcode # 0
    /\ exitStatus = 1
    /\ Written(res)

C6_JsonErrorContinues ==
    /\ (callOutcome = "apierror" /\ e.text.kind # "json")
         => /\ pc = "exited"
            /\ exitStatus = 1
            /\ nQueries = 0
            /\ stdout = <<>>
            /\ \E i \in 1..Len(stderr) : stderr[i] = BodyLine(e.text)
    /\ (callOutcome = "apierror" /\ e.text.kind = "json")
         => /\ firstResponse = e.text.obj
            /\ \A i \in 1..Len(stderr) : stderr[i] # BodyLine(e.text)
            /\ pc = "detect" => (response = e.text.obj /\ exitStatus = -1)
            /\ pc # "detect" =>
                 ((nQueries > 0 \/ pc \in {"poll", "inflight", "sleep"}) <=> Triggered)
            /\ (pc = "exited" /\ ~queryFailed) => Len(stdout) = 2
            /\ (pc = "exited" /\ nQueries = 0) => Written(e.text.obj)

C6_Witness ==
    /\ callOutcome = "apierror"
    /\ e.text.kind = "json"
    /\ pc = "exited"
    /\ nQueries > 0
    /\ nTerminal = 1
    /\ Written(res)

\* C7: no network call is made in a run with an OPTION=VALUE word lacking '='
\* or with a region missing from the configuration; both end the run as a
\* fatal error.
C7_NoNetworkOnBadInput ==
    (MalformedArgument \/ argv.region \notin ini)
      => /\ nCalls = 0
         /\ nQueries = 0
         /\ pc \in {"parse", "config", "exited"}
         /\ pc = "exited" => (exitStatus \in {1, 2} /\ stdout = <<>>)

C7_Witness ==
    /\ pc = "exited"
    /\ ~MalformedArgument
    /\ Len(argv.arguments) > 0
    /\ argv.region \notin ini
    /\ exitStatus = 1
    /\ nCalls = 0

\* C8: the loop has no retry limit: it is left only on a terminal answer, an
\* interrupt or a failed query, an uninterrupted wait is always followed by
\* another query, and once a terminal answer arrived the process writes its
\* result and exits.
C8_NeverGivesUp ==
    /\ [](LoopLeft => (nTerminal > 0 \/ interrupted # "none" \/ queryFailed))
    /\ ((pc = "sleep") ~> (pc = "inflight" \/ interrupted # "none"))
    /\ ((nTerminal > 0) ~> (pc = "exited" /\ Len(stdout) = 2))

C8_Witness ==
    /\ pc = "sleep"
    /\ nWaits = MaxCount
    /\ nPending = MaxCount
    /\ nTerminal = 0
    /\ interrupted = "none"

\* C9: the initial call is issued once, a further job-status query follows
\* only a pending answer, and a failed call or query is followed by no other
\* query: the process ends with a non-zero status.
C9_NoRetry ==
    /\ nCalls <= 1
    /\ pc \notin {"parse", "config", "call"} /\ exitStatus \notin {2} /\ argv.region \in ini
         => nCalls = 1
    /\ nQueries < MaxCount => nQueries <= nPending + 1
    /\ callOutcome = "exception"
         => (pc = "exited" /\ exitStatus = 1 /\ nQueries = 0 /\ stdout = <<>>)
    /\ queryFailed
         => /\ pc = "exited"
            /\ exitStatus = 1
            /\ stdout = <<>>
            /\ nTerminal = 0
            /\ nQueries < MaxCount => nQueries = nPending + 1

C9_Witness ==
    /\ queryFailed
    /\ pc = "exited"
    /\ nPending = 1
    /\ nQueries = 2
    /\ exitStatus = 1

\* C10 as stated: an interrupt during a job-status call does not abort the
\* loop; only an interrupt during the wait ends it with the non-fatal outcome.
C10_OnlyWaitCancels ==
    (LoopLeft /\ nTerminal = 0 /\ ~queryFailed) => interrupted = "wait"

\* C10 amended: an interrupt anywhere inside the polling loop, during a
\* job-status call or during the wait, abandons the loop with the non-fatal
\* outcome: the initial response is written and the exit status is 0.  An
\* interrupt during the initial call is not caught and is fatal.
C10_LoopInterruptNonFatal ==
    /\ (interrupted \in {"inflight", "wait"})
         => /\ pc \in {"format", "exited"}
            /\ ok
            /\ ~argv.quiet => stderr[Len(stderr)] = NotReadyLine
            /\ pc = "exited" => (exitStatus = 0 /\ Written(firstResponse))
    /\ (interrupted = "inflight" /\ nQueries < MaxCount) => nQueries = nWaits + 1
    /\ (interrupted = "call")
         => (pc = "exited" /\ exitStatus \in {1, 130} /\ stdout = <<>> /\ nQueries = 0)

C10_Witness ==
    /\ interrupted = "inflight"
    /\ pc = "exited"
    /\ nPending = 1
    /\ exitStatus = 0
    /\ Written(firstResponse)
====
